---- MODULE Spec2Model ----
(***************************************************************************)
(* CH34xUsbSerial (src/index.ts): the WebUSB driver of the CH34x USB to    *)
(* serial bridge, as a state machine.  The transport (USBDevice) is the    *)
(* environment: every promise it returns settles by a step of its own,     *)
(* resolved or rejected.  A step of the driver runs the code from one      *)
(* suspension point (await, then/catch/finally callback, timer) to the     *)
(* next.                                                                   *)
(***************************************************************************)
EXTENDS Integers, Sequences, FiniteSets, TLC

(* ------------------------------ bounds -------------------------------- *)
\* calls of open() in one run
MaxOpens == 2
\* calls of close() made by the caller in one run
MaxCloses == 1
\* calls of write() in one run
MaxWrites == 1
\* direct calls of setBaudRate() and setControlLines() in one run
MaxCalls == 2

(* ------------------------ constants of index.ts ----------------------- *)
REQUEST_READ_VERSION == 95
REQUEST_READ_REGISTRY == 149
REQUEST_WRITE_REGISTRY == 154
REQUEST_SERIAL_INITIATION == 161
REG_MODEM_CTRL == 164
REG_BAUD_FACTOR == 4882
REG_BAUD_OFFSET == 3884
REG_BAUD_LOW == 9496
LCR_ENABLE_RX == 128
LCR_ENABLE_TX == 64
LCR_CS8 == 3
SCL_DTR == 32
SCL_RTS == 64
DEFAULT_BAUD_RATE == 9600
baseFactor == 1532620800
divmax == 3
CLOSE_DELAY_MS == 2000

\* the value of a field that was never assigned
undefined == [type |-> "undefined"]

(* --------------------------- int32 operators -------------------------- *)
RECURSIVE BitAnd(_, _)
\* a & b, for non-negative operands
BitAnd(a, b) ==
  IF a = 0 \/ b = 0 THEN 0
  ELSE (a % 2) * (b % 2) + 2 * BitAnd(a \div 2, b \div 2)

RECURSIVE BitOr(_, _)
\* a | b, for non-negative operands
BitOr(a, b) ==
  IF a = 0 THEN b
  ELSE IF b = 0 THEN a
  ELSE (IF a % 2 = 1 \/ b % 2 = 1 THEN 1 ELSE 0) + 2 * BitOr(a \div 2, b \div 2)

\* ~a on an int32
BitNot(a) == -a - 1

(* ------------------------- setBaudRate's numbers ---------------------- *)
(* `factor = baseFactor / baudRate` is a floating-point division: the     *)
(* quotient is kept as its integer part and whether a fraction is left.   *)
(* `>>=` and `&` convert their operand to an int32 first (truncation).    *)
quotient(n, d) == [int |-> n \div d, frac |-> (n % d) # 0]

\* factor > 0xfff0
exceeds(factor) == factor.int > 65520 \/ (factor.int = 65520 /\ factor.frac)

RECURSIVE shiftLoop(_, _)
\* while ((factor > 0xfff0) && divisor > 0) { factor >>= 3; divisor--; }
shiftLoop(factor, divisor) ==
  IF exceeds(factor) /\ divisor > 0
  THEN shiftLoop([int |-> factor.int \div 8, frac |-> FALSE], divisor - 1)
  ELSE [factor |-> factor, divisor |-> divisor]

\* ToInt32(0x10000 - factor), for 0 < factor <= 0xfff0
foldFactor(factor) == 65536 - (factor.int + (IF factor.frac THEN 1 ELSE 0))

\* the two register values setBaudRate computes, or that it throws
baudRegisters(baudRate) ==
  IF baudRate = 921600
  THEN [throws |-> FALSE,
        val1 |-> BitOr(BitAnd(62208, 65280), BitOr(7, 128)),
        val2 |-> BitAnd(62208, 255)]
  ELSE LET l == shiftLoop(quotient(baseFactor, baudRate), divmax)
       IN IF exceeds(l.factor)
          THEN [throws |-> TRUE, val1 |-> 0, val2 |-> 0]
          ELSE LET factor == foldFactor(l.factor)
                   divisor == BitOr(l.divisor, 128)
               IN [throws |-> FALSE,
                   val1 |-> BitOr(BitAnd(factor, 65280), divisor),
                   val2 |-> BitAnd(factor, 255)]

(* ------------------------- register operations ------------------------ *)
(* One operation of the initialization script: the control transfer it    *)
(* issues, whether the caller awaits it, and whether a rejection of the   *)
(* transfer is caught (vendorOut) or propagates (vendorIn, checkState).    *)
\* vendorOut without `await`: the caller goes on while the transfer is outstanding
vendorOutNotAwaited(request, value, index) ==
  [op |-> "vendorOut", dir |-> "out", request |-> request, value |-> value,
   index |-> index, length |-> 0, awaited |-> FALSE, catches |-> TRUE]

\* vendorOut without its catch: a rejected transfer rejects vendorOut
vendorOutUncaught(request, value, index) ==
  [op |-> "vendorOut", dir |-> "out", request |-> request, value |-> value,
   index |-> index, length |-> 0, awaited |-> TRUE, catches |-> FALSE]

vendorOut(request, value, index) ==
  [op |-> "vendorOut", dir |-> "out", request |-> request, value |-> value,
   index |-> index, length |-> 0, awaited |-> TRUE, catches |-> TRUE]

vendorIn(request, value, index, length) ==
  [op |-> "vendorIn", dir |-> "in", request |-> request, value |-> value,
   index |-> index, length |-> length, awaited |-> TRUE, catches |-> FALSE]

\* the transfer checkState issues; expectedLength is expected.byteLength
checkState(request, value, expectedLength) ==
  [vendorIn(request, value, 0, expectedLength) EXCEPT !.op = "checkState"]

\* what checkState returns for a transfer that resolved with `result`
checkStateResult(result, expectedLength) ==
  IF result.status # "ok" \/ result.data = undefined THEN FALSE
  ELSE IF result.data.byteLength # expectedLength THEN FALSE
  \* result.data.buffer (an ArrayBuffer) is never the Uint8Array `expected`
  ELSE IF TRUE THEN FALSE
  ELSE TRUE

throwOp(error) ==
  [op |-> "throw", dir |-> "none", request |-> 0, value |-> 0, index |-> 0,
   length |-> 0, awaited |-> TRUE, catches |-> FALSE, error |-> error]

\* the operations of setBaudRate(baudRate), in order
setBaudRate(baudRate) ==
  LET r == baudRegisters(baudRate)
  IN IF r.throws
     THEN << throwOp("unsupported baud rate") >>
     ELSE << vendorOut(REQUEST_WRITE_REGISTRY, REG_BAUD_FACTOR, r.val1),
             vendorOut(REQUEST_WRITE_REGISTRY, REG_BAUD_OFFSET, r.val2) >>

\* the operation of setControlLines()
setControlLines(dtr, rts) ==
  vendorOut(REG_MODEM_CTRL,
            BitNot(BitOr(IF dtr THEN SCL_DTR ELSE 0, IF rts THEN SCL_RTS ELSE 0)),
            0)

\* the operations of init(), in order
init(dtr, rts) ==
  << checkState(REQUEST_READ_VERSION, 0, 2),
     vendorOut(REQUEST_SERIAL_INITIATION, 0, 0) >>
  \o setBaudRate(DEFAULT_BAUD_RATE)
  \o << checkState(REQUEST_READ_REGISTRY, REG_BAUD_LOW, 2),
        vendorOut(REQUEST_WRITE_REGISTRY, REG_BAUD_LOW,
                  BitOr(BitOr(LCR_ENABLE_TX, LCR_ENABLE_RX), LCR_CS8)),
        checkState(REQUEST_READ_REGISTRY, 1798, 2),
        vendorOut(REQUEST_SERIAL_INITIATION, 20511, 55562) >>
  \o setBaudRate(DEFAULT_BAUD_RATE)
  \o << setControlLines(dtr, rts),
        checkState(REQUEST_READ_REGISTRY, 1798, 2) >>

\* open() without line 155: the requested rate is never applied
openScriptInitOnly(bitrate, dtr, rts) == init(dtr, rts)

\* open(), lines 154-155: await this.init(); await this.setBaudRate(this.bitrate)
openScript(bitrate, dtr, rts) == init(dtr, rts) \o setBaudRate(bitrate)

(* ------------------------------ the device ---------------------------- *)
endpoint(endpointNumber, direction, type, packetSize) ==
  [endpointNumber |-> endpointNumber, direction |-> direction,
   type |-> type, packetSize |-> packetSize]

interface(interfaceNumber, endpoints) ==
  [interfaceNumber |-> interfaceNumber, alternate |-> [endpoints |-> endpoints]]

\* a CH340: interrupt-in 1, bulk-in 2, bulk-out 2 on interface 0
Ch340 ==
  [interfaces |->
     << interface(0, << endpoint(1, "in", "interrupt", 8),
                        endpoint(2, "in", "bulk", 32),
                        endpoint(2, "out", "bulk", 32) >>) >>]

\* a device whose data interface (the last of two) has no bulk-in endpoint,
\* and two bulk-out endpoints
NoBulkIn ==
  [interfaces |->
     << interface(0, << endpoint(1, "in", "interrupt", 8) >>),
        interface(1, << endpoint(2, "out", "bulk", 32),
                        endpoint(3, "out", "bulk", 64) >>) >>]

\* device.configuration: undefined for an unconfigured device
Configurations == {undefined, Ch340, NoBulkIn}

\* opts.baudRate: a rate other than the default, and one no encoding exists for
Bitrates == {1200, 45}

\* what a control transfer does: a resolved IN carries a result
OutOutcomes == {[kind |-> "resolve"], [kind |-> "reject"]}

InOutcomes ==
  { [kind |-> "resolve", result |-> [status |-> "ok", data |-> [byteLength |-> 2]]],
    [kind |-> "resolve", result |-> [status |-> "ok", data |-> [byteLength |-> 1]]],
    [kind |-> "resolve", result |-> [status |-> "stall", data |-> undefined]],
    [kind |-> "reject"] }

\* USBInTransferResult.data: a DataView, a window on an ArrayBuffer
dataView(buffer, byteOffset, byteLength) ==
  [buffer |-> buffer, byteOffset |-> byteOffset, byteLength |-> byteLength]

\* the bytes a DataView holds: those the transfer received
received(view) ==
  SubSeq(view.buffer, view.byteOffset + 1, view.byteOffset + view.byteLength)

NO_DEVICE == "LIBUSB_TRANSFER_NO_DEVICE"

\* what a bulk-in transfer does.  An error message is a sequence of words.
BulkInOutcomes ==
  { [kind |-> "resolve", result |-> [status |-> "ok", data |-> dataView(<<7, 9>>, 0, 2)]],
    [kind |-> "resolve", result |-> [status |-> "ok", data |-> dataView(<<7, 9>>, 1, 1)]],
    [kind |-> "resolve", result |-> [status |-> "ok", data |-> dataView(<< >>, 0, 0)]],
    [kind |-> "resolve", result |-> [status |-> "stall", data |-> undefined]],
    [kind |-> "reject", error |-> [message |-> << NO_DEVICE >>]],
    [kind |-> "reject", error |-> [message |-> << "transfer failed:", NO_DEVICE >>]],
    [kind |-> "reject", error |-> [message |-> << "LIBUSB_TRANSFER_STALL" >>]] }

RECURSIVE indexFrom(_, _, _)
indexFrom(message, word, i) ==
  IF i > Len(message) THEN -1
  ELSE IF message[i] = word THEN i - 1
  ELSE indexFrom(message, word, i + 1)

\* message.indexOf(word): the position of its first occurrence, from 0, or -1
indexOf(message, word) == indexFrom(message, word, 1)

\* a number used as a condition
truthy(n) == n # 0

(* ------------------------------- state -------------------------------- *)
VARIABLES
  configuration,  \* device.configuration
  opened,         \* device.opened
  bitrate, dtr, rts, isClosing, readEndpoint, writeEndpoint, \* the driver's fields
  opens,          \* the calls of open(): where each one is, and its read loop
  closes,         \* the calls of close()
  writes,         \* the calls of write()
  calls,          \* the direct calls of setBaudRate() and setControlLines()
  since,          \* the session: what happened since the last call of open()
  last            \* the last step: the completion delivered, the events dispatched

vars == << configuration, opened, bitrate, dtr, rts, isClosing, readEndpoint,
           writeEndpoint, opens, closes, writes, calls, since, last >>

OpenIds == 1..MaxOpens
WriteIds == 1..MaxWrites
CallIds == 1..MaxCalls
\* close() called by the caller, and by readLoop() of each open()
CallerCloseIds == 1..MaxCloses
CloseIds == 1..(MaxCloses + MaxOpens)
closeOf(o) == MaxCloses + o

Range(s) == {s[i] : i \in DOMAIN s}

noCompletion == [kind |-> "none"]
event(type, call, detail) == [type |-> type, call |-> call, detail |-> detail]
\* what the last step showed outside the driver: the events it dispatched and
\* the completion it handled; of a step that dispatched nothing, only the
\* completion of a bulk-in transfer or of a claimInterface
step(action, call, completion, events) ==
  IF action \in {"transferIn", "claimInterface"} \/ events # << >>
  THEN [action |-> action, call |-> call, completion |-> completion, events |-> events]
  ELSE [action |-> "quiet", call |-> 0, completion |-> noCompletion, events |-> events]

\* the fields of a new CH34xUsbSerial(device, {baudRate})
constructor(baudRate) ==
  [isClosing |-> FALSE, bitrate |-> baudRate, readEndpoint |-> undefined,
   writeEndpoint |-> undefined, dtr |-> TRUE, rts |-> TRUE]

\* the control transfer an operation requests of the transport
transfer(op) ==
  [dir |-> op.dir, request |-> op.request, value |-> op.value, index |-> op.index,
   length |-> op.length]

\* a call of open(): where it is (pc, step), the claims and control transfers
\* it has outstanding, the operations of its init() and setBaudRate() (script),
\* the control transfers it has requested (log), what its checkState calls
\* returned, the events it dispatched, its read loop, and the endpoints it
\* assigned to readEndpoint and writeEndpoint, in order
newOpen ==
  [pc |-> "idle", claims |-> {}, script |-> << >>, step |-> 0, pending |-> {},
   log |-> << >>, assigned |-> [read |-> << >>, write |-> << >>],
   checks |-> << >>, ready |-> 0, error |-> 0, detail |-> "none",
   loop |-> "none", request |-> undefined]

\* a call of close(): where it is, whether a read loop was running when it was
\* made, how often it has requested releaseInterface and device.close(), which
\* of the two the transport rejected, and what its promise settled with
newClose ==
  [pc |-> "idle", active |-> FALSE, releaseInterface |-> 0, deviceClose |-> 0,
   failure |-> "none", result |-> "none"]

\* the session, from a call of open() until the next: whether close() was
\* called in it, and whether a 'disconnected' event was dispatched in it
newSession == [closed |-> FALSE, disconnected |-> FALSE]
disconnectedIn(s) == [s EXCEPT !.disconnected = TRUE]
closedIn(s) == [disconnectedIn(s) EXCEPT !.closed = TRUE]

\* a read loop is running: a bulk-in transfer is in flight or being handled,
\* and nothing has stopped the loop
loopActive ==
  /\ ~isClosing
  /\ opened
  /\ \E o \in OpenIds : opens[o].loop \in {"transferIn", "finally"}

newWrite ==
  [pc |-> "idle", byteLength |-> 0, transferOut |-> << >>, result |-> undefined]

\* a direct call of setBaudRate() or setControlLines(): its operations
\* (script), where it is, the control transfers it has requested (log) and has
\* outstanding, how many of them the transport rejected, and what its promise
\* settled with
newCall ==
  [pc |-> "idle", method |-> "none", baudRate |-> 0, script |-> << >>, step |-> 0,
   pending |-> {}, log |-> << >>, failed |-> 0, result |-> undefined]

Init ==
  /\ configuration \in Configurations
  /\ opened = FALSE
  /\ \E baudRate \in Bitrates :
       LET this == constructor(baudRate)
       IN /\ bitrate = this.bitrate
          /\ dtr = this.dtr
          /\ rts = this.rts
          /\ isClosing = this.isClosing
          /\ readEndpoint = this.readEndpoint
          /\ writeEndpoint = this.writeEndpoint
  /\ opens = [o \in OpenIds |-> newOpen]
  /\ closes = [c \in CloseIds |-> newClose]
  /\ writes = [w \in WriteIds |-> newWrite]
  /\ calls = [c \in CallIds |-> newCall]
  /\ since = newSession
  /\ last = step("constructor", 0, noCompletion, << >>)

(* ------------------------------ readLoop ------------------------------ *)
(* readLoop() of the loop that open() call o started, up to its return:    *)
(* without a read endpoint it calls close() (the caller awaits it), else   *)
(* it submits one transferIn and returns.  `closing` is isClosing as the   *)
(* caller left it, `self` the call's record.                               *)
readLoop(o, self, closing, action, completion, events) ==
  IF readEndpoint = undefined
  THEN /\ isClosing' = TRUE
       /\ closes' = [closes EXCEPT ![closeOf(o)].pc = "timer"]
       /\ since' = closedIn(since)
       /\ opens' = [opens EXCEPT ![o] = [self EXCEPT !.loop = "close"]]
       /\ last' = step(action, o, completion,
                       events \o << event("disconnected", closeOf(o), "none") >>)
  ELSE /\ isClosing' = closing
       /\ closes' = closes
       /\ since' = since
       /\ opens' = [opens EXCEPT ![o] =
            [self EXCEPT !.loop = "transferIn",
                         !.request = [endpointNumber |-> readEndpoint.endpointNumber,
                                      length |-> readEndpoint.packetSize]]]
       /\ last' = step(action, o, completion, events)

\* the bulk-in transfer of loop o settles: the then and catch callbacks
transferInSettles(o, outcome) ==
  /\ opens[o].loop = "transferIn"
  /\ opens' = [opens EXCEPT ![o].loop = "finally"]
  /\ IF outcome.kind = "resolve"
     THEN /\ isClosing' = isClosing
          /\ last' = step("transferIn", o, outcome,
               IF outcome.result.data # undefined /\ outcome.result.data.byteLength # 0
               THEN << event("data", o, outcome.result.data.buffer) >>
               ELSE << >>)
     ELSE IF truthy(indexOf(outcome.error.message, NO_DEVICE))
     THEN /\ isClosing' = TRUE
          /\ last' = step("transferIn", o, outcome,
                          << event("disconnected", o, "none") >>)
     ELSE /\ isClosing' = isClosing
          /\ last' = step("transferIn", o, outcome, << >>)
  /\ since' = IF outcome.kind = "reject" /\ truthy(indexOf(outcome.error.message, NO_DEVICE))
              THEN disconnectedIn(since) ELSE since
  /\ UNCHANGED << calls, configuration, opened, bitrate, dtr, rts, readEndpoint,
                  writeEndpoint, closes, writes >>

\* the finally callback of loop o
readLoopFinally(o) ==
  /\ opens[o].loop = "finally"
  /\ IF ~isClosing /\ opened
     THEN readLoop(o, opens[o], isClosing, "finally", noCompletion, << >>)
     ELSE /\ opens' = [opens EXCEPT ![o].loop = "stopped"]
          /\ last' = step("finally", o, noCompletion, << >>)
          /\ UNCHANGED << isClosing, closes, since >>
  /\ UNCHANGED << calls, configuration, opened, bitrate, dtr, rts, readEndpoint,
                  writeEndpoint, writes >>

(* -------------------------------- open -------------------------------- *)
RECURSIVE burst(_, _)
\* the operations run from position k without suspending: up to the first
\* awaited one, or the one that throws
burst(script, k) ==
  IF k > Len(script) THEN << >>
  ELSE IF script[k].op = "throw" \/ script[k].awaited THEN << k >>
  ELSE << k >> \o burst(script, k + 1)

\* open() without its catch: the failure ends the call and nothing is dispatched
raiseUncaught(o, self, error, action, completion) ==
  /\ opens' = [opens EXCEPT ![o] = [self EXCEPT !.pc = "done"]]
  /\ last' = step(action, o, completion, << >>)

\* dispatchEvent(new CustomEvent('error', {detail: error})), lines 161-166
raise(o, self, error, action, completion) ==
  /\ opens' = [opens EXCEPT ![o] = [self EXCEPT !.pc = "done", !.error = @ + 1,
                                                !.detail = error]]
  /\ last' = step(action, o, completion, << event("error", o, error) >>)

\* open() call o from position k of its script to its next suspension
\* (lines 154-158)
runFrom(o, self, k, action, completion) ==
  LET script == self.script
      b == burst(script, k)
      n == Len(b)
      throws == n > 0 /\ script[b[n]].op = "throw"
      suspends == n > 0 /\ ~throws /\ script[b[n]].awaited
      issued == SelectSeq(b, LAMBDA i : script[i].op # "throw")
      next == [self EXCEPT !.log = @ \o [j \in 1..Len(issued) |-> transfer(script[issued[j]])],
                           !.pending = @ \cup Range(issued)]
  IN IF throws
     THEN /\ raise(o, next, script[b[n]].error, action, completion)
          /\ UNCHANGED << isClosing, closes, since >>
     ELSE IF suspends
     THEN /\ opens' = [opens EXCEPT ![o] = [next EXCEPT !.pc = "script", !.step = b[n]]]
          /\ last' = step(action, o, completion, << >>)
          /\ UNCHANGED << isClosing, closes, since >>
     ELSE \* this.isClosing = false; await this.readLoop()
          readLoop(o, [next EXCEPT !.pc = "readLoop"], FALSE, action, completion, << >>)

RECURSIVE discover(_, _, _)
\* the forEach of lines 136-152 for one direction: the last bulk endpoint of
\* that direction, or the field's value before
discover(endpoints, direction, current) ==
  IF endpoints = << >> THEN current
  ELSE discover(Tail(endpoints), direction,
                IF Head(endpoints).type = "bulk" /\ Head(endpoints).direction = direction
                THEN Head(endpoints) ELSE current)

\* the endpoints that forEach assigns to the field of one direction, in order
assignments(endpoints, direction) ==
  SelectSeq(endpoints, LAMBDA e : e.type = "bulk" /\ e.direction = direction)

interfaces == IF configuration # undefined THEN configuration.interfaces ELSE << >>

\* a call of open(): device.open() is requested (lines 119-121)
open(o) ==
  /\ opens[o].pc = "idle"
  /\ \A p \in OpenIds : p < o => opens[p].pc # "idle"
  /\ opens' = [opens EXCEPT ![o].pc = "deviceOpen"]
  /\ since' = newSession
  /\ last' = step("open", o, noCompletion, << >>)
  /\ UNCHANGED << calls, configuration, opened, bitrate, dtr, rts, isClosing, readEndpoint,
                  writeEndpoint, closes, writes >>

\* device.open() settles; resolved, every interface is claimed (lines 121-132)
deviceOpenSettles(o, outcome) ==
  /\ opens[o].pc = "deviceOpen"
  /\ IF outcome.kind = "reject"
     THEN /\ raise(o, opens[o], "device.open failed", "deviceOpen", outcome)
          /\ opened' = opened
     ELSE /\ opened' = TRUE
          /\ opens' = [opens EXCEPT ![o].pc = "claimInterface",
                 ![o].claims = {interfaces[i].interfaceNumber : i \in DOMAIN interfaces}]
          /\ last' = step("deviceOpen", o, outcome, << >>)
  /\ UNCHANGED << calls, since, configuration, bitrate, dtr, rts, isClosing, readEndpoint,
                  writeEndpoint, closes, writes >>

\* one claimInterface settles; a rejection is caught and logged (lines 127-131)
claimInterfaceSettles(o, n, outcome) ==
  /\ opens[o].pc = "claimInterface"
  /\ n \in opens[o].claims
  /\ opens' = [opens EXCEPT ![o].claims = @ \ {n}]
  /\ last' = step("claimInterface", o, outcome, << >>)
  /\ UNCHANGED << calls, since, configuration, opened, bitrate, dtr, rts, isClosing, readEndpoint,
                  writeEndpoint, closes, writes >>

\* Promise.all resolved: the endpoints are found and init() starts
\* (lines 134-154)
claimed(o) ==
  /\ opens[o].pc = "claimInterface"
  /\ opens[o].claims = {}
  /\ IF interfaces = << >>
     THEN \* dataInterface is undefined: dataInterface.alternate throws
          /\ raise(o, opens[o], "TypeError", "claimed", noCompletion)
          /\ UNCHANGED << isClosing, readEndpoint, writeEndpoint, closes, since >>
     ELSE LET dataInterface == interfaces[Len(interfaces)]
              endpoints == dataInterface.alternate.endpoints
          IN /\ readEndpoint' = discover(endpoints, "in", readEndpoint)
             /\ writeEndpoint' = discover(endpoints, "out", writeEndpoint)
             /\ runFrom(o, [opens[o] EXCEPT
                             !.script = openScript(bitrate, dtr, rts),
                             !.assigned = [read |-> assignments(endpoints, "in"),
                                           write |-> assignments(endpoints, "out")]],
                        1, "claimed", noCompletion)
  /\ UNCHANGED << calls, configuration, opened, bitrate, dtr, rts, writes >>

\* the control transfer of position i settles, and the code awaiting it goes
\* on: a rejection is caught by vendorOut and thrown on by checkState
controlTransferSettles(o, i, outcome) ==
  LET script == opens[o].script
      self == [opens[o] EXCEPT !.pending = @ \ {i},
                 !.checks = IF script[i].op = "checkState" /\ outcome.kind = "resolve"
                            THEN Append(@, checkStateResult(outcome.result, script[i].length))
                            ELSE @]
  IN /\ i \in opens[o].pending
     /\ outcome \in (IF script[i].dir = "in" THEN InOutcomes ELSE OutOutcomes)
     /\ IF opens[o].pc = "script" /\ opens[o].step = i
        THEN IF outcome.kind = "reject" /\ ~script[i].catches
             THEN /\ raise(o, self, "controlTransferIn failed", "controlTransfer", outcome)
                  /\ UNCHANGED << isClosing, closes, since >>
             ELSE runFrom(o, self, i + 1, "controlTransfer", outcome)
        ELSE /\ opens' = [opens EXCEPT ![o] = self]
             /\ last' = step("controlTransfer", o, outcome, << >>)
             /\ UNCHANGED << isClosing, closes, since >>
     /\ UNCHANGED << calls, configuration, opened, bitrate, dtr, rts, readEndpoint,
                     writeEndpoint, writes >>

\* `await this.readLoop()` returns: 'ready', or 'error' when close() rejected
\* (lines 158-166)
readLoopReturns(o) ==
  /\ opens[o].pc = "readLoop"
  /\ \/ opens[o].loop # "close"
     \/ closes[closeOf(o)].pc \in {"resolved", "rejected"}
  /\ IF opens[o].loop = "close" /\ closes[closeOf(o)].pc = "rejected"
     THEN raise(o, opens[o], "close failed", "readLoopReturns", noCompletion)
     ELSE /\ opens' = [opens EXCEPT ![o].pc = "done", ![o].ready = @ + 1]
          /\ last' = step("readLoopReturns", o, noCompletion,
                          << event("ready", o, "none") >>)
  /\ UNCHANGED << calls, since, configuration, opened, bitrate, dtr, rts, isClosing, readEndpoint,
                  writeEndpoint, closes, writes >>

(* -------------------------------- close ------------------------------- *)
\* a call of close() by the caller: the flag, the event, the timer
\* (lines 203-207)
close(c) ==
  /\ c \in CallerCloseIds
  /\ closes[c].pc = "idle"
  /\ \A d \in CallerCloseIds : d < c => closes[d].pc # "idle"
  /\ isClosing' = TRUE
  /\ closes' = [closes EXCEPT ![c].pc = "timer", ![c].active = loopActive]
  /\ since' = closedIn(since)
  /\ last' = step("close", c, noCompletion, << event("disconnected", c, "none") >>)
  /\ UNCHANGED << calls, configuration, opened, bitrate, dtr, rts, readEndpoint,
                  writeEndpoint, opens, writes >>

\* the timer of close() call c fires after CLOSE_DELAY_MS: releaseInterface(0)
\* is requested (lines 207-209)
closeTimer(c) ==
  /\ closes[c].pc = "timer"
  /\ closes' = [closes EXCEPT ![c].pc = "releaseInterface", ![c].releaseInterface = @ + 1]
  /\ last' = step("closeTimer", c, noCompletion, << >>)
  /\ UNCHANGED << calls, since, configuration, opened, bitrate, dtr, rts, isClosing, readEndpoint,
                  writeEndpoint, opens, writes >>

\* close() without its await of releaseInterface: device.close() is requested
\* whether the release succeeded or not
releaseInterfaceUnchecked(c, outcome) ==
  /\ closes[c].pc = "releaseInterface"
  /\ closes' = [closes EXCEPT ![c].pc = "deviceClose", ![c].deviceClose = @ + 1,
                   ![c].failure = IF outcome.kind = "resolve" THEN @
                                  ELSE "releaseInterface failed"]
  /\ last' = step("releaseInterface", c, outcome, << >>)
  /\ UNCHANGED << calls, since, configuration, opened, bitrate, dtr, rts, isClosing,
                  readEndpoint, writeEndpoint, opens, writes >>

\* releaseInterface(0) settles: device.close() is requested, or close() rejects
\* (lines 209-215)
releaseInterfaceSettles(c, outcome) ==
  /\ closes[c].pc = "releaseInterface"
  /\ closes' = IF outcome.kind = "resolve"
               THEN [closes EXCEPT ![c].pc = "deviceClose", ![c].deviceClose = @ + 1]
               ELSE [closes EXCEPT ![c].pc = "rejected",
                                   ![c].failure = "releaseInterface failed",
                                   ![c].result = "releaseInterface failed"]
  /\ last' = step("releaseInterface", c, outcome, << >>)
  /\ UNCHANGED << calls, since, configuration, opened, bitrate, dtr, rts, isClosing, readEndpoint,
                  writeEndpoint, opens, writes >>

\* device.close() settles: close() resolves or rejects (lines 210-215)
deviceCloseSettles(c, outcome) ==
  /\ closes[c].pc = "deviceClose"
  /\ closes' = IF outcome.kind = "resolve"
               THEN [closes EXCEPT ![c].pc = "resolved", ![c].result = "resolved"]
               ELSE [closes EXCEPT ![c].pc = "rejected",
                                   ![c].failure = "device.close failed",
                                   ![c].result = "device.close failed"]
  /\ opened' = IF outcome.kind = "resolve" THEN FALSE ELSE opened
  /\ last' = step("deviceClose", c, outcome, << >>)
  /\ UNCHANGED << calls, since, configuration, bitrate, dtr, rts, isClosing, readEndpoint,
                  writeEndpoint, opens, writes >>

(* -------------------------------- write ------------------------------- *)
\* byteLength of the data passed to write()
DataLengths == {0, 3}

\* write() without its check of the write endpoint
writeUnchecked(w, byteLength) ==
  /\ writes[w].pc = "idle"
  /\ \A v \in WriteIds : v < w => writes[v].pc # "idle"
  /\ writes' = [writes EXCEPT ![w] =
       [pc |-> "transferOut", byteLength |-> byteLength,
        transferOut |-> << [endpointNumber |-> IF writeEndpoint = undefined THEN undefined
                                               ELSE writeEndpoint.endpointNumber,
                            byteLength |-> byteLength] >>,
        result |-> undefined]]
  /\ last' = step("write", w, noCompletion, << >>)
  /\ UNCHANGED << calls, since, configuration, opened, bitrate, dtr, rts, isClosing, readEndpoint,
                  writeEndpoint, opens, closes >>

\* a call of write(data): rejected at once without a write endpoint, else one
\* transferOut is requested (lines 221-227)
write(w, byteLength) ==
  /\ writes[w].pc = "idle"
  /\ \A v \in WriteIds : v < w => writes[v].pc # "idle"
  /\ writes' = [writes EXCEPT ![w] =
       IF writeEndpoint = undefined
       THEN [pc |-> "rejected", byteLength |-> byteLength, transferOut |-> << >>,
             result |-> "no writeEndpoint"]
       ELSE [pc |-> "transferOut", byteLength |-> byteLength,
             transferOut |-> << [endpointNumber |-> writeEndpoint.endpointNumber,
                                 byteLength |-> byteLength] >>,
             result |-> undefined]]
  /\ last' = step("write", w, noCompletion, << >>)
  /\ UNCHANGED << calls, since, configuration, opened, bitrate, dtr, rts, isClosing, readEndpoint,
                  writeEndpoint, opens, closes >>

\* the transferOut of write() call w settles (lines 227-232)
transferOutSettles(w, outcome) ==
  /\ writes[w].pc = "transferOut"
  /\ writes' = [writes EXCEPT ![w] =
       IF outcome.kind = "resolve"
       THEN [@ EXCEPT !.pc = "resolved",
               !.result = [status |-> "ok", bytesWritten |-> writes[w].byteLength]]
       ELSE [@ EXCEPT !.pc = "rejected", !.result = "transferOut failed"]]
  /\ last' = step("transferOut", w, outcome, << >>)
  /\ UNCHANGED << calls, since, configuration, opened, bitrate, dtr, rts, isClosing, readEndpoint,
                  writeEndpoint, opens, closes >>

(* ----------------------------- specification -------------------------- *)
Next ==
  \/ \E o \in OpenIds : open(o)
  \/ \E o \in OpenIds, outcome \in OutOutcomes : deviceOpenSettles(o, outcome)
  \/ \E o \in OpenIds : \E n \in opens[o].claims, outcome \in OutOutcomes :
       claimInterfaceSettles(o, n, outcome)
  \/ \E o \in OpenIds : claimed(o)
  \/ \E o \in OpenIds : \E i \in opens[o].pending :
       \E outcome \in InOutcomes \cup OutOutcomes : controlTransferSettles(o, i, outcome)
  \/ \E o \in OpenIds : readLoopReturns(o)
  \/ \E o \in OpenIds, outcome \in BulkInOutcomes : transferInSettles(o, outcome)
  \/ \E o \in OpenIds : readLoopFinally(o)
  \/ \E c \in CloseIds : close(c)
  \/ \E c \in CloseIds : closeTimer(c)
  \/ \E c \in CloseIds, outcome \in OutOutcomes : releaseInterfaceSettles(c, outcome)
  \/ \E c \in CloseIds, outcome \in OutOutcomes : deviceCloseSettles(c, outcome)
  \/ \E w \in WriteIds, byteLength \in DataLengths : write(w, byteLength)
  \/ \E w \in WriteIds, outcome \in OutOutcomes : transferOutSettles(w, outcome)

Spec == Init /\ [][Next]_vars

(* ------------- setBaudRate and setControlLines, called directly ------- *)
(* Both are public methods.  A second specification calls them on the     *)
(* driver directly, for the rates of BaudRates, and lets the transport     *)
(* resolve or reject every register write.                                 *)
\* the argument of setBaudRate: below 46, standard rates, rates 1532620800 is
\* not a multiple of, 921600
BaudRates == {1, 45, 46, 1200, 9600, 25000, 115200, 250000, 921600}

\* call c from position k of its script to its next suspension: the promise
\* rejects when the code throws and resolves at the end of the method
runCall(c, self, k) ==
  LET script == self.script
      b == burst(script, k)
      n == Len(b)
      throws == n > 0 /\ script[b[n]].op = "throw"
      suspends == n > 0 /\ ~throws /\ script[b[n]].awaited
      issued == SelectSeq(b, LAMBDA i : script[i].op # "throw")
      next == [self EXCEPT
                 !.log = @ \o [j \in 1..Len(issued) |-> transfer(script[issued[j]])],
                 !.pending = @ \cup Range(issued)]
  IN calls' = [calls EXCEPT ![c] =
       IF throws THEN [next EXCEPT !.pc = "rejected", !.result = script[b[n]].error]
       ELSE IF suspends THEN [next EXCEPT !.pc = "script", !.step = b[n]]
       ELSE [next EXCEPT !.pc = "resolved"]]

\* a call of setBaudRate(baudRate) (lines 89-115)
callSetBaudRate(c, baudRate) ==
  /\ calls[c].pc = "idle"
  /\ \A d \in CallIds : d < c => calls[d].pc # "idle"
  /\ runCall(c, [calls[c] EXCEPT !.method = "setBaudRate", !.baudRate = baudRate,
                                 !.script = setBaudRate(baudRate)], 1)
  /\ UNCHANGED << configuration, opened, bitrate, dtr, rts, isClosing, readEndpoint,
                  writeEndpoint, opens, closes, writes, since, last >>

\* a call of setControlLines() (lines 236-238)
callSetControlLines(c) ==
  /\ calls[c].pc = "idle"
  /\ \A d \in CallIds : d < c => calls[d].pc # "idle"
  /\ runCall(c, [calls[c] EXCEPT !.method = "setControlLines",
                                 !.script = << setControlLines(dtr, rts) >>], 1)
  /\ UNCHANGED << configuration, opened, bitrate, dtr, rts, isClosing, readEndpoint,
                  writeEndpoint, opens, closes, writes, since, last >>

\* the register write of position i of call c settles, and the code awaiting
\* it goes on (lines 47-57, 115-116)
registerWriteSettles(c, i, outcome) ==
  LET script == calls[c].script
      self == [calls[c] EXCEPT !.pending = @ \ {i},
                 !.failed = IF outcome.kind = "reject" THEN @ + 1 ELSE @]
  IN /\ i \in calls[c].pending
     /\ IF calls[c].pc = "script" /\ calls[c].step = i
        THEN IF outcome.kind = "reject" /\ ~script[i].catches
             THEN calls' = [calls EXCEPT ![c] =
                    [self EXCEPT !.pc = "rejected", !.result = "controlTransferOut failed"]]
             ELSE runCall(c, self, i + 1)
        ELSE calls' = [calls EXCEPT ![c] = self]
     /\ UNCHANGED << configuration, opened, bitrate, dtr, rts, isClosing, readEndpoint,
                     writeEndpoint, opens, closes, writes, since, last >>

NextRegisters ==
  \/ \E c \in CallIds, baudRate \in BaudRates : callSetBaudRate(c, baudRate)
  \/ \E c \in CallIds : callSetControlLines(c)
  \/ \E c \in CallIds : \E i \in calls[c].pending, outcome \in OutOutcomes :
       registerWriteSettles(c, i, outcome)

SpecRegisters == Init /\ [][NextRegisters]_vars

(* ============================== the claims ============================ *)
count(events, type) == Cardinality({i \in DOMAIN events : events[i].type = type})
key(t) == << t.dir, t.request, t.value, t.index >>
\* open() call o has submitted a bulk-in transfer
submitted(o) == opens[o].loop \in {"transferIn", "finally", "stopped"}

(* ---- C1 ---- *)
\* the twelve control transfers of the documented initialization sequence:
\* direction, request, value, index
InitTransfers ==
  << << "in", 95, 0, 0 >>,
     << "out", 161, 0, 0 >>,
     << "out", 154, 4882, 45698 >>,
     << "out", 154, 3884, 12 >>,
     << "in", 149, 9496, 0 >>,
     << "out", 154, 9496, 195 >>,
     << "in", 149, 1798, 0 >>,
     << "out", 161, 20511, 55562 >>,
     << "out", 154, 4882, 45698 >>,
     << "out", 154, 3884, 12 >>,
     << "out", 164, -97, 0 >>,
     << "in", 149, 1798, 0 >> >>

\* C1: every open() requests its control transfers one at a time (never two
\* outstanding), the first twelve it requests are the initialization sequence
\* in the documented order with the documented values, and it has submitted a
\* bulk-in transfer only after all twelve were requested and none is outstanding.
C1_InitInOrder ==
  \A o \in OpenIds :
    /\ Cardinality(opens[o].pending) <= 1
    /\ \A i \in DOMAIN opens[o].log :
         i <= Len(InitTransfers) => key(opens[o].log[i]) = InitTransfers[i]
    /\ (opens[o].pc = "readLoop" \/ submitted(o)) =>
         /\ Len(opens[o].log) >= Len(InitTransfers)
         /\ opens[o].pending = {}

\* an open() whose twelve transfers were requested and settled and whose
\* bulk-in transfer is in flight
C1_Witness ==
  \E o \in OpenIds :
    /\ opens[o].loop = "transferIn"
    /\ Len(opens[o].log) >= Len(InitTransfers)
    /\ opens[o].pending = {}

(* ---- C2 ---- *)
\* the register pair of a bitrate, as the chip's tables give it
RequestedRegisters(b) ==
  IF b = 1200 THEN << 45697, 12 >>
  ELSE IF b = 9600 THEN << 45698, 12 >>
  ELSE << 62343, 0 >>

\* C2: an open() that has submitted its bulk-in transfer or dispatched 'ready'
\* has requested fourteen control transfers, none outstanding, and the last two
\* write the baud registers for the constructor's bitrate.
C2_RequestedRateLast ==
  \A o \in OpenIds :
    (submitted(o) \/ opens[o].ready > 0) =>
      /\ opens[o].pending = {}
      /\ Len(opens[o].log) = Len(InitTransfers) + 2
      /\ bitrate \in {1200, 9600, 921600}
      /\ key(opens[o].log[Len(InitTransfers) + 1])
           = << "out", 154, 4882, RequestedRegisters(bitrate)[1] >>
      /\ key(opens[o].log[Len(InitTransfers) + 2])
           = << "out", 154, 3884, RequestedRegisters(bitrate)[2] >>

\* 'ready' after an open() for 1200 baud, whose last register pair is not the
\* pair of 9600
C2_Witness ==
  \E o \in OpenIds :
    /\ opens[o].ready = 1
    /\ bitrate = 1200
    /\ opens[o].log[Len(InitTransfers) + 1].index # InitTransfers[3][4]

(* ---- C3 ---- *)
\* open() call o is waiting for something that has not settled, or can go on
waiting(o) ==
  \/ opens[o].pc = "deviceOpen"
  \/ opens[o].pc = "claimInterface"
  \/ opens[o].pc = "script" /\ opens[o].step \in opens[o].pending
  \/ opens[o].pc = "readLoop" /\ opens[o].loop # "close"
  \/ opens[o].pc = "readLoop" /\ closes[closeOf(o)].pc # "idle"

\* C3: an open() dispatches 'ready' at most once and never both 'ready' and
\* 'error'; one that is over has dispatched exactly one of them, 'error' with
\* the failure; one that is not over waits for an operation that has not
\* settled.
C3_ReadyXorError ==
  \A o \in OpenIds :
    /\ opens[o].ready <= 1
    /\ opens[o].ready + opens[o].error <= 1
    /\ opens[o].pc = "done" => opens[o].ready + opens[o].error = 1
    /\ opens[o].error = 1 <=> opens[o].detail # "none"
    /\ opens[o].pc \notin {"idle", "done"} =>
         opens[o].ready + opens[o].error = 0 /\ waiting(o)

\* one open() ended in 'error', another in 'ready'
C3_Witness ==
  \E o, p \in OpenIds :
    /\ opens[o].pc = "done" /\ opens[o].error = 1
    /\ opens[p].pc = "done" /\ opens[p].ready = 1

(* ---- C4 ---- *)
\* the caller has not called close()
callerIdle == \A c \in CallerCloseIds : closes[c].pc = "idle"
\* no bulk-in transfer has settled yet
noneSettled == \A o \in OpenIds : opens[o].loop \notin {"finally", "stopped"}

\* C4: when 'ready' is dispatched the read loop is active: the device is open,
\* the read endpoint is assigned, isClosing is false and the call's bulk-in
\* transfer is in flight on the read endpoint.  Stated for the runs in which
\* the caller has not called close() and no bulk-in transfer has settled.
C4_ReadyMeansLoopActive ==
  \A i \in DOMAIN last.events :
    (last.events[i].type = "ready" /\ callerIdle /\ noneSettled) =>
      /\ opened
      /\ readEndpoint # undefined
      /\ ~isClosing
      /\ opens[last.events[i].call].loop = "transferIn"
      /\ opens[last.events[i].call].request.endpointNumber = readEndpoint.endpointNumber

(* ---- C5 ---- *)
\* C5: a bulk-in completion that resolves with a non-empty payload dispatches
\* exactly one 'data' event, whose detail is the bytes the transfer received;
\* any other completion dispatches no 'data' event.
C5_DataIsWhatWasReceived ==
  last.action = "transferIn" =>
    IF /\ last.completion.kind = "resolve"
       /\ last.completion.result.data # undefined
       /\ last.completion.result.data.byteLength > 0
    THEN last.events =
           << event("data", last.call, received(last.completion.result.data)) >>
    ELSE count(last.events, "data") = 0

(* ---- C6 ---- *)
\* the completion is a rejection whose message names the removal of the device
removal(completion) ==
  completion.kind = "reject" /\ NO_DEVICE \in Range(completion.error.message)

\* C6: a bulk-in transfer that fails with a device-removal error, wherever the
\* marker stands in the message, dispatches exactly one 'disconnected' event and
\* sets isClosing, and its loop has not submitted another transfer.
C6_RemovalStopsLoop ==
  (last.action = "transferIn" /\ removal(last.completion)) =>
    /\ count(last.events, "disconnected") = 1
    /\ isClosing
    /\ opens[last.call].loop = "finally"

(* ---- C7 ---- *)
\* C7: while close() has not been called and the device is open, a bulk-in
\* completion that is a success or an ordinary failure leaves isClosing false
\* and dispatches no 'disconnected', and the loop's finally step then submits
\* one more bulk-in transfer.
C7_OrdinaryOutcomeKeepsLoop ==
  [][\A o \in OpenIds :
       /\ ( /\ opens[o].loop = "transferIn" /\ opens'[o].loop = "finally"
            /\ ~removal(last'.completion)
            /\ ~isClosing /\ opened /\ callerIdle )
          => (~isClosing' /\ count(last'.events, "disconnected") = 0)
       /\ ( /\ opens[o].loop = "finally" /\ opens'[o].loop # "finally"
            /\ ~isClosing /\ opened /\ callerIdle )
          => opens'[o].loop = "transferIn"
    ]_vars

(* ---- C8 ---- *)
\* C8: a close() called while the read loop is active requests releaseInterface
\* and device.close() at most once each, and once it has settled it has
\* requested each exactly once.
C8_ReleasedAndClosedOnce ==
  \A c \in CallerCloseIds :
    closes[c].active =>
      /\ closes[c].releaseInterface <= 1
      /\ closes[c].deviceClose <= 1
      /\ closes[c].pc \in {"resolved", "rejected"} =>
           closes[c].releaseInterface = 1 /\ closes[c].deviceClose = 1

(* ---- C9 ---- *)
\* C9: a write() called without a write endpoint is rejected with "no
\* writeEndpoint" and requests nothing of the transport; one called with a
\* write endpoint requests exactly one transferOut on it, with the data passed,
\* and then resolves with bytesWritten = the data's byteLength when the
\* transfer resolves, or rejects with the transfer's error.
C9_WriteContract ==
  /\ [](\A w \in WriteIds :
          /\ Len(writes[w].transferOut) <= 1
          /\ writes[w].pc = "transferOut" => Len(writes[w].transferOut) = 1
          /\ writes[w].pc = "resolved" =>
               /\ Len(writes[w].transferOut) = 1
               /\ writes[w].result =
                    [status |-> "ok", bytesWritten |-> writes[w].byteLength]
          /\ writes[w].pc = "rejected" =>
               writes[w].result = (IF writes[w].transferOut = << >>
                                   THEN "no writeEndpoint" ELSE "transferOut failed"))
  /\ [][\A w \in WriteIds :
          (writes[w].pc = "idle" /\ writes'[w].pc # "idle") =>
            IF writeEndpoint = undefined
            THEN /\ writes'[w].pc = "rejected"
                 /\ writes'[w].transferOut = << >>
                 /\ opens' = opens
                 /\ closes' = closes
            ELSE /\ writes'[w].pc = "transferOut"
                 /\ writes'[w].transferOut =
                      << [endpointNumber |-> writeEndpoint.endpointNumber,
                          byteLength |-> writes'[w].byteLength] >>
     ]_vars

\* a write() rejected for want of a write endpoint while an open() is running
\* its initialization
C9_Witness ==
  /\ writes[1].pc = "rejected"
  /\ writes[1].transferOut = << >>
  /\ \E o \in OpenIds : opens[o].pc = "script"

(* ---- C10 ---- *)
\* some close() has been called, by the caller or by readLoop()
closeCalled == \E c \in CloseIds : closes[c].pc # "idle"

\* C10: a step taken while isClosing is true dispatches neither 'data' nor
\* 'ready'.  Stated for two cases: 'data' once close() has been called, and
\* 'ready' of an open() while the caller has not called close() and no bulk-in
\* transfer has settled.
C10_ClosingIsSilent ==
  [][isClosing =>
       /\ closeCalled => count(last'.events, "data") = 0
       /\ (callerIdle /\ noneSettled) => count(last'.events, "ready") = 0
    ]_vars

(* ---- C11 ---- *)
\* the reference encoder's loop: shift right by 3 while the factor is above
\* 0xFFF0 and the divisor is positive
RECURSIVE referenceLoop(_, _)
referenceLoop(factor0, divisor) ==
  IF factor0 > 65520 /\ divisor > 0
  THEN referenceLoop(factor0 \div 8, divisor - 1)
  ELSE [factor0 |-> factor0, divisor |-> divisor]

\* the reference encoder: it fails, or gives register 1 and register 2
referenceEncoder(b) ==
  IF b = 921600 THEN [fails |-> FALSE, pair |-> << 62343, 0 >>]
  ELSE LET l == referenceLoop(1532620800 \div b, 3)
           factor == 65536 - l.factor0
       IN IF l.factor0 > 65520
          THEN [fails |-> TRUE, pair |-> << >>]
          ELSE [fails |-> FALSE,
                pair |-> << BitOr(BitOr(BitAnd(factor, 65280), l.divisor), 128),
                            BitAnd(factor, 255) >>]

\* C11: a call of setBaudRate(b) that has settled did what the reference
\* encoder does for b: where the encoder fails the call is rejected and has
\* written no register, otherwise it has written the encoder's register 1 to
\* REG_BAUD_FACTOR and register 2 to REG_BAUD_OFFSET, and nothing else.
C11_SameAsReferenceEncoder ==
  \A c \in CallIds :
    (calls[c].method = "setBaudRate" /\ calls[c].pc \in {"resolved", "rejected"}) =>
      LET reference == referenceEncoder(calls[c].baudRate)
      IN IF reference.fails
         THEN calls[c].pc = "rejected" /\ calls[c].log = << >>
         ELSE /\ calls[c].pc = "resolved"
              /\ [i \in DOMAIN calls[c].log |-> key(calls[c].log[i])] =
                   << << "out", 154, 4882, reference.pair[1] >>,
                      << "out", 154, 3884, reference.pair[2] >> >>

(* ---- C12 ---- *)
\* C12: a rejected register write never rejects the call: a direct call of
\* setBaudRate() or setControlLines() is rejected only for an unsupported rate,
\* before any write; after a write was rejected the call goes on, so that
\* setBaudRate() has then requested its second write, and a settled call has
\* resolved with all its writes requested.  No 'error' event is dispatched.
C12_RegisterWriteNeverRaises ==
  /\ count(last.events, "error") = 0
  /\ \A c \in CallIds :
       /\ calls[c].pc = "rejected" =>
            /\ calls[c].result = "unsupported baud rate"
            /\ calls[c].log = << >>
       /\ calls[c].failed > 0 =>
            /\ calls[c].pc \in {"script", "resolved"}
            /\ calls[c].pc = "script" => Len(calls[c].log) = Len(calls[c].script)
            /\ calls[c].pc = "resolved" =>
                 /\ calls[c].pending = {}
                 /\ Len(calls[c].log) = Len(calls[c].script)

\* setBaudRate() resolved after both its writes were rejected, and
\* setControlLines() resolved after its write was rejected
C12_Witness ==
  \E c, d \in CallIds :
    /\ calls[c].method = "setBaudRate"
    /\ calls[c].pc = "resolved" /\ calls[c].failed = 2 /\ Len(calls[c].log) = 2
    /\ calls[d].method = "setControlLines"
    /\ calls[d].pc = "resolved" /\ calls[d].failed = 1

(* ---- C13 ---- *)
\* C13: while the device stays open, the step in which the first transfer of
\* an open()'s initialization settles - the read of step 1, the only transfer
\* requested so far, so that at most this one step has failed - dispatches no
\* 'error', and the call goes on to request the transfer of step 2.
C13_FirstFailureDoesNotAbort ==
  [][\A o \in OpenIds :
       ( /\ Len(opens[o].log) = 1
         /\ opens[o].pending = {1} /\ opens'[o].pending # {1}
         /\ opened /\ opened' )
       => /\ opens'[o].error = 0
          /\ count(last'.events, "error") = 0
          /\ Len(opens'[o].log) = 2
          /\ opens'[o].pending = {2}
    ]_vars

(* ---- C14 ---- *)
\* C14: the step that calls close() sets isClosing and dispatches
\* 'disconnected' and requests nothing of the transport yet; device.close() is
\* requested only after releaseInterface resolved; close() has resolved only
\* with both requested and neither rejected; and once the transport rejected
\* one of them close() is rejected with that failure.
C14_CloseReflectsTransport ==
  /\ [](\A c \in CloseIds :
          /\ closes[c].pc \in {"idle", "timer"} =>
               closes[c].releaseInterface = 0 /\ closes[c].deviceClose = 0
          /\ closes[c].deviceClose <= closes[c].releaseInterface
          /\ closes[c].pc = "deviceClose" => closes[c].failure = "none"
          /\ closes[c].pc = "resolved" =>
               /\ closes[c].releaseInterface = 1 /\ closes[c].deviceClose = 1
               /\ closes[c].failure = "none"
          /\ closes[c].failure # "none" =>
               closes[c].pc = "rejected" /\ closes[c].result = closes[c].failure
          /\ closes[c].pc = "rejected" => closes[c].failure # "none")
  /\ [][\A c \in CloseIds :
          (closes[c].pc = "idle" /\ closes'[c].pc # "idle") =>
            /\ closes'[c].pc = "timer"
            /\ isClosing'
            /\ count(last'.events, "disconnected") = 1
     ]_vars

\* one close() was rejected because releaseInterface was rejected, another
\* because device.close() was, each after its 'disconnected'
C14_Witness ==
  \E c, d \in CloseIds :
    /\ closes[c].pc = "rejected" /\ closes[c].result = "releaseInterface failed"
    /\ closes[c].deviceClose = 0
    /\ closes[d].pc = "rejected" /\ closes[d].result = "device.close failed"
    /\ since.disconnected

(* ---- C15 ---- *)
\* the driver is Ready: 'ready' was dispatched, close() has not been called
\* and no removal of the device was detected
Ready ==
  /\ \E o \in OpenIds : opens[o].ready = 1
  /\ \A c \in CloseIds : closes[c].pc = "idle"
  /\ ~isClosing
  /\ ~since.disconnected

\* C15: a call of write() requests a transferOut only when the driver is Ready.
C15_WriteOnlyWhenReady ==
  [][\A w \in WriteIds :
       (writes[w].pc = "idle" /\ writes'[w].transferOut # << >>) => Ready
    ]_vars

(* ---- C16 ---- *)
\* C16: the step in which device.open() is rejected, in which a claimInterface
\* is rejected, or in which the claims are over and there is no interface,
\* ends the open(): it dispatches one 'error', and the call has dispatched no
\* 'ready' and requested no control transfer and no bulk-in transfer.
C16_OpenFailureIsFatal ==
  [][\A o \in OpenIds :
       ( \/ /\ opens[o].pc = "deviceOpen" /\ opens'[o].pc # "deviceOpen"
             /\ last'.completion.kind = "reject"
          \/ /\ opens[o].pc = "claimInterface"
             /\ last'.action = "claimInterface" /\ last'.call = o
             /\ last'.completion.kind = "reject"
          \/ /\ opens[o].pc = "claimInterface" /\ opens'[o].pc # "claimInterface"
             /\ interfaces = << >> )
       => /\ opens'[o].pc = "done"
          /\ opens'[o].error = 1 /\ opens'[o].ready = 0
          /\ count(last'.events, "error") = 1
          /\ opens'[o].log = << >>
          /\ opens'[o].loop = "none"
    ]_vars

(* ---- C17 ---- *)
\* C17: once close() has been called, and until the next call of open(), no
\* step submits a bulk-in transfer.
C17_NoTransferAfterClose ==
  [][since.closed =>
       \A o \in OpenIds :
         ~(opens[o].loop # "transferIn" /\ opens'[o].loop = "transferIn")
    ]_vars

(* ---- C18 ---- *)
\* C18: in a session in which 'disconnected' was dispatched, no step
\* dispatches it again: neither a call of close(), nor the completion of a
\* bulk-in transfer that succeeds or fails with a device-removal error.
C18_DisconnectedOncePerSession ==
  [][( /\ since.disconnected
       /\ \E o \in OpenIds : opens[o].pc # "idle"
       /\ last'.action = "transferIn" =>
            (last'.completion.kind = "resolve" \/ removal(last'.completion)) )
       => count(last'.events, "disconnected") = 0
    ]_vars

(* ---- C19 ---- *)
\* C19: no step changes readEndpoint or writeEndpoint once it is assigned, and
\* an open() assigns each of them at most once.
C19_EndpointsAssignedOnce ==
  [][/\ readEndpoint # undefined => readEndpoint' = readEndpoint
     /\ writeEndpoint # undefined => writeEndpoint' = writeEndpoint
     /\ \A o \in OpenIds :
          /\ Len(opens'[o].assigned.read) <= 1
          /\ Len(opens'[o].assigned.write) <= 1
    ]_vars

(* ---- C20 ---- *)
\* C20: at most one bulk-in transfer is outstanding, and an outstanding one
\* was requested on the read endpoint with its packetSize as length.
C20_OneTransferOfPacketSize ==
  /\ Cardinality({o \in OpenIds : opens[o].loop = "transferIn"}) <= 1
  /\ \A o \in OpenIds :
       opens[o].loop = "transferIn" =>
         /\ opens[o].request.endpointNumber = readEndpoint.endpointNumber
         /\ opens[o].request.length = readEndpoint.packetSize

====
